---- MODULE Spec2Model ----
(***************************************************************************)
(* A model of the developer tools of scrutiny-devtools:                    *)
(*   codebanner.py  - the banner (file header) writer and its file scan    *)
(*   codestats.py   - the line classifier and the language classifier      *)
(*                                                                         *)
(* Text is modelled at the level of characters: a string is a sequence of  *)
(* one-character strings, a file on disk is the sequence of its bytes.     *)
(* Indexes follow Python (0-based, half-open slices) so that the           *)
(* operators can be read against the source line by line.                  *)
(***************************************************************************)
EXTENDS Integers, Sequences, FiniteSets, TLC

VARIABLES
    disk,       \* banner tool: path -> bytes of the file, or Missing
    linesep,    \* os.linesep of the platform the tool runs on
    config,     \* CodeBanner.config (the loaded .codebanner.json)
    history,    \* the years "git log" reports for a file
    last,       \* the last write_docstring call: its input and its outcome
    runs,       \* number of write_docstring calls made so far
    batch,      \* write_files: position in config['files'] and state of the run
    wrap,       \* format_docstring: the input and the produced lines
    tree,       \* scan_files: the files below base_folder
    found,      \* scan_files: what the last scan yielded
    stats,      \* codestats.scan_file: the lines, the position, the state
    names       \* the two get_language functions: the file name and the answers

bannerVars == <<disk, linesep, config, history, last, runs, batch>>
wrapVars == <<wrap>>
scanVars == <<tree, found>>
statsVars == <<stats>>
langVars == <<names>>
vars == <<disk, linesep, config, history, last, runs, batch, wrap, tree, found, stats, names>>

(***************************************************************************)
(* Bounds of the model.                                                    *)
(***************************************************************************)

\* lines of a file given to the banner writer
MaxLines == 2
\* entries of config['files'] in a batch
MaxFiles == 3
\* runs of the "write" command
MaxRuns == 2
\* words and separators a description is made of
MaxPieces == 5
\* lines of a file given to the line counter
MaxStatLines == 5
\* commands 'scan' run one after the other
MaxScans == 2

(***************************************************************************)
(* Python's str and list operations, as the source uses them.              *)
(***************************************************************************)

\* str.isspace() of one character, the class \s of re for the ASCII range
IsSpace(c) == c \in {" ", "\t", "\n", "\r", "\f"}

\* s[a:b]
Slice(s, a, b) ==
    LET lo == IF a < 0 THEN 0 ELSE a
        hi == IF b > Len(s) THEN Len(s) ELSE b
    IN IF hi <= lo THEN <<>> ELSE SubSeq(s, lo + 1, hi)

\* s[a:]
SliceFrom(s, a) == Slice(s, a, Len(s))

\* s.startswith(p)
StartsWith(s, p) == Len(s) >= Len(p) /\ SubSeq(s, 1, Len(p)) = p

\* s.endswith(p)
EndsWith(s, p) == Len(s) >= Len(p) /\ SubSeq(s, Len(s) - Len(p) + 1, Len(s)) = p

\* s.find(p, from): the lowest index >= from where p occurs, or -1
FindFrom(s, p, from) ==
    LET hits == {i \in from..(Len(s) - Len(p)) : SubSeq(s, i + 1, i + Len(p)) = p}
    IN IF hits = {} THEN -1 ELSE CHOOSE i \in hits : \A j \in hits : i <= j

\* s.find(p)
Find(s, p) == FindFrom(s, p, 0)

\* s.rfind(p): the highest index where p occurs, or -1
RFind(s, p) ==
    LET hits == {i \in 0..(Len(s) - Len(p)) : SubSeq(s, i + 1, i + Len(p)) = p}
    IN IF hits = {} THEN -1 ELSE CHOOSE i \in hits : \A j \in hits : i >= j

\* s.lstrip()
LStrip(s) ==
    LET keep == {i \in 1..Len(s) : ~IsSpace(s[i])}
    IN IF keep = {} THEN <<>>
       ELSE SubSeq(s, CHOOSE i \in keep : \A j \in keep : i <= j, Len(s))

\* s.rstrip()
RStrip(s) ==
    LET keep == {i \in 1..Len(s) : ~IsSpace(s[i])}
    IN IF keep = {} THEN <<>>
       ELSE SubSeq(s, 1, CHOOSE i \in keep : \A j \in keep : i >= j)

\* s.strip()
Strip(s) == RStrip(LStrip(s))

\* s.split(c) for a one-character separator
RECURSIVE Split(_, _)
Split(s, c) ==
    LET i == Find(s, <<c>>)
    IN IF i = -1 THEN <<s>> ELSE <<Slice(s, 0, i)>> \o Split(SliceFrom(s, i + 1), c)

\* ''.join(parts), joined by halves
RECURSIVE Concat(_)
Concat(parts) ==
    IF parts = <<>> THEN <<>>
    ELSE IF Len(parts) = 1 THEN parts[1]
    ELSE Concat(SubSeq(parts, 1, Len(parts) \div 2))
         \o Concat(SubSeq(parts, (Len(parts) \div 2) + 1, Len(parts)))

\* sep.join(parts)
Join(parts, sep) ==
    Concat([k \in 1..Len(parts) |-> IF k = 1 THEN parts[k] ELSE sep \o parts[k]])

\* s.replace(c, by) for a one-character c
Replace(s, c, by) == Concat([i \in 1..Len(s) |-> IF s[i] = c THEN by ELSE <<s[i]>>])

UpperCase == <<"A", "B", "C", "D", "E", "F", "G", "H", "I", "J", "K", "L", "M",
               "N", "O", "P", "Q", "R", "S", "T", "U", "V", "W", "X", "Y", "Z">>
LowerCase == <<"a", "b", "c", "d", "e", "f", "g", "h", "i", "j", "k", "l", "m",
               "n", "o", "p", "q", "r", "s", "t", "u", "v", "w", "x", "y", "z">>

\* s.lower()
Lower(s) ==
    [i \in 1..Len(s) |->
        IF \E k \in 1..26 : UpperCase[k] = s[i]
        THEN LowerCase[CHOOSE k \in 1..26 : UpperCase[k] = s[i]]
        ELSE s[i]]

Digits == <<"0", "1", "2", "3", "4", "5", "6", "7", "8", "9">>

\* str(n) for n >= 0, as '%s' % n and an f-string render an int
RECURSIVE IntToStr(_)
IntToStr(n) ==
    IF n < 10 THEN <<Digits[n + 1]>> ELSE IntToStr(n \div 10) \o <<Digits[(n % 10) + 1]>>

\* os.path.basename(p) on a POSIX path
Basename(p) == SliceFrom(p, RFind(p, <<"/">>) + 1)

\* pathlib.PurePath(p).suffix, for a path that does not end in "/"
PathSuffix(p) ==
    LET name == Basename(p)
        i == RFind(name, <<".">>)
    IN IF 0 < i /\ i < Len(name) - 1 THEN SliceFrom(name, i) ELSE <<>>

\* os.path.splitext(p)[1]: the last dot of the basename, leading dots skipped
SplitExt(p) ==
    LET sepIndex == RFind(p, <<"/">>)
        dotIndex == RFind(p, <<".">>)
    IN IF dotIndex > sepIndex
          /\ \E k \in (sepIndex + 1)..(dotIndex - 1) : p[k + 1] # "."
       THEN SliceFrom(p, dotIndex)
       ELSE <<>>

(***************************************************************************)
(* String literals of the source, spelled as character sequences.          *)
(***************************************************************************)

EXT_py == <<".", "p", "y">>
EXT_pyi == <<".", "p", "y", "i">>
EXT_c == <<".", "c">>
EXT_cpp == <<".", "c", "p", "p">>
EXT_h == <<".", "h">>
EXT_hpp == <<".", "h", "p", "p">>
EXT_js == <<".", "j", "s">>
EXT_ts == <<".", "t", "s">>
EXT_sh == <<".", "s", "h">>
EXT_cmake == <<".", "c", "m", "a", "k", "e">>
NAME_CMakeLists == <<"C", "M", "a", "k", "e", "L", "i", "s", "t", "s", ".", "t", "x", "t">>
TXT_ts_check == <<"@", "t", "s", "-", "c", "h", "e", "c", "k">>
TXT_ts_nocheck == <<"@", "t", "s", "-", "n", "o", "c", "h", "e", "c", "k">>
TXT_node == <<"#", "!", "/", "b", "i", "n", "/", "n", "o", "d", "e">>
TXT_python3 == <<"#", "!", "/", "u", "s", "r", "/", "b", "i", "n", "/", "e", "n", "v", " ", "p", "y", "t", "h", "o", "n", "3">>
TXT_bash == <<"#", "!", "/", "b", "i", "n", "/", "b", "a", "s", "h">>
TXT_Author == <<"A", "u", "t", "h", "o", "r">>
TXT_Contributors == <<"C", "o", "n", "t", "r", "i", "b", "u", "t", "o", "r", "s">>
TXT_License == <<"L", "i", "c", "e", "n", "s", "e">>
TXT_Project == <<"P", "r", "o", "j", "e", "c", "t">>
LIT_MIT == <<"M", "I", "T">>
LIT_2020 == <<"2", "0", "2", "0">>
LIT_2021 == <<"2", "0", "2", "1">>
LIT_2023 == <<"2", "0", "2", "3">>
LIT_2024 == <<"2", "0", "2", "4">>
PATH_a_js == <<"a", ".", "j", "s">>
PATH_a_py == <<"a", ".", "p", "y">>
PATH_b_py == <<"b", ".", "p", "y">>
PATH_c_py == <<"c", ".", "p", "y">>
PATH_a_ts == <<"a", ".", "t", "s">>
PATH_a_c == <<"a", ".", "c">>
PATH_a_sh == <<"a", ".", "s", "h">>
PATH_a_xyz == <<"a", ".", "x", "y", "z">>
LINE_a == <<"/", "/", " ", "a", "\n">>
LINE_b == <<"/", "*", " ", "b", "\n">>
LINE_c == <<"c", " ", "*", "/", "\n">>
LINE_x == <<"i", "n", "t", " ", "x", ";", "\n">>
EXT_cjs == <<".", "c", "j", "s">>
EXT_html == <<".", "h", "t", "m", "l">>
EXT_htm == <<".", "h", "t", "m">>
EXT_md == <<".", "m", "d">>
EXT_json == <<".", "j", "s", "o", "n">>
EXT_bash == <<".", "b", "a", "s", "h">>
EXT_css == <<".", "c", "s", "s">>
EXT_bat == <<".", "b", "a", "t">>
NAME_Dockerfile == <<"D", "o", "c", "k", "e", "r", "f", "i", "l", "e">>
NAME_Jenkinsfile == <<"J", "e", "n", "k", "i", "n", "s", "f", "i", "l", "e">>
TXT_Copyright == <<"C", "o", "p", "y", "r", "i", "g", "h", "t", " ", "(", "c", ")", " ">>

(***************************************************************************)
(* codebanner.py: the language of a file, and the comment syntax of each   *)
(* language.                                                               *)
(***************************************************************************)

UnknownLanguage == "Exception: Unknown language for file"

\* codebanner.Language
BannerLanguages == {"CPP", "PYTHON", "JAVASCRIPT", "TYPESCRIPT", "BASH", "CMAKE"}

\* A CodeBanner.get_language that compares the suffix as it is written
CodeBanner_get_language_cased(filename) ==
    LET extension == PathSuffix(filename)
    IN IF extension \in {EXT_py, EXT_pyi} THEN "PYTHON"
       ELSE IF extension \in {EXT_c, EXT_cpp, EXT_h, EXT_hpp} THEN "CPP"
       ELSE IF extension \in {EXT_js} THEN "JAVASCRIPT"
       ELSE IF extension \in {EXT_ts} THEN "TYPESCRIPT"
       ELSE IF extension \in {EXT_sh} THEN "BASH"
       ELSE IF extension \in {EXT_cmake} THEN "CMAKE"
       ELSE IF Basename(filename) = NAME_CMakeLists THEN "CMAKE"
       ELSE UnknownLanguage

\* CodeBanner.get_language: the Language of a file name, or UnknownLanguage
CodeBanner_get_language(filename) ==
    LET extension == Lower(PathSuffix(filename))
    IN IF extension \in {EXT_py, EXT_pyi} THEN "PYTHON"
       ELSE IF extension \in {EXT_c, EXT_cpp, EXT_h, EXT_hpp} THEN "CPP"
       ELSE IF extension \in {EXT_js} THEN "JAVASCRIPT"
       ELSE IF extension \in {EXT_ts} THEN "TYPESCRIPT"
       ELSE IF extension \in {EXT_sh} THEN "BASH"
       ELSE IF extension \in {EXT_cmake} THEN "CMAKE"
       ELSE IF Basename(filename) = NAME_CMakeLists THEN "CMAKE"
       ELSE UnknownLanguage

\* codestats.get_language: the Language of a file name, or UnknownLanguage
get_language(filename) ==
    LET ext == Lower(Strip(SplitExt(filename)))
        basename == Basename(filename)
    IN IF basename = NAME_CMakeLists THEN "CMAKE"
       ELSE IF basename = NAME_Dockerfile THEN "DOCKER"
       ELSE IF basename = NAME_Jenkinsfile THEN "JENKINS"
       ELSE IF ext \in {EXT_ts} THEN "TYPESCRIPT"
       ELSE IF ext \in {EXT_c, EXT_h} THEN "C"
       ELSE IF ext \in {EXT_cpp, EXT_hpp} THEN "CPP"
       ELSE IF ext \in {EXT_py, EXT_pyi} THEN "PYTHON"
       ELSE IF ext \in {EXT_js, EXT_cjs} THEN "JAVASCRIPT"
       ELSE IF ext \in {EXT_html, EXT_htm} THEN "HTML"
       ELSE IF ext \in {EXT_md} THEN "MARKDOWN"
       ELSE IF ext \in {EXT_json} THEN "JSON"
       ELSE IF ext \in {EXT_sh, EXT_bash} THEN "BASH"
       ELSE IF ext \in {EXT_css} THEN "CSS"
       ELSE IF ext \in {EXT_cmake} THEN "CMAKE"
       ELSE IF ext \in {EXT_bat} THEN "BATCHFILE"
       ELSE UnknownLanguage

\* re.match(pattern, line) for the four patterns of write_docstring
re_match(pattern, line) ==
    CASE pattern = "^\\s*//(.*)" -> StartsWith(LStrip(line), <<"/", "/">>)
      [] pattern = "^\\s*#(.*)" -> StartsWith(LStrip(line), <<"#">>)
      [] pattern = "^\\s+$" -> line # <<>> /\ \A i \in 1..Len(line) : IsSpace(line[i])
      [] pattern = "\\/\\/\\s*@ts-(no)?check" ->
            /\ StartsWith(line, <<"/", "/">>)
            /\ \/ StartsWith(LStrip(SliceFrom(line, 2)), TXT_ts_check)
               \/ StartsWith(LStrip(SliceFrom(line, 2)), TXT_ts_nocheck)

\* write_docstring: skip_patterns of the language
skip_patterns(language) ==
    IF language = "TYPESCRIPT" THEN <<"\\/\\/\\s*@ts-(no)?check">> ELSE <<>>

\* write_docstring: comment_pattern of the language
comment_pattern(language) ==
    IF language \in {"CPP", "JAVASCRIPT", "TYPESCRIPT"}
    THEN <<"^\\s*//(.*)", "^\\s+$">>
    ELSE <<"^\\s*#(.*)", "^\\s+$">>

\* write_docstring: shebang of the language
shebang(language, add_shebang) ==
    CASE language \in {"JAVASCRIPT", "TYPESCRIPT"} -> IF add_shebang THEN TXT_node ELSE <<>>
      [] language = "PYTHON" -> IF add_shebang THEN TXT_python3 ELSE <<>>
      [] language = "BASH" -> IF add_shebang THEN TXT_bash ELSE <<>>
      [] OTHER -> <<>>

(***************************************************************************)
(* Text files: open(..., 'r') and open(..., 'w') with the default newline  *)
(* mode translate line endings.                                            *)
(***************************************************************************)

\* Reading in text mode: "\r\n" and "\r" both become "\n"
TranslateIn(bytes) ==
    Concat([i \in 1..Len(bytes) |->
        IF bytes[i] = "\r" THEN <<"\n">>
        ELSE IF bytes[i] = "\n" /\ i > 1 /\ bytes[i - 1] = "\r" THEN <<>>
        ELSE <<bytes[i]>>])

\* Writing in text mode: every "\n" becomes os.linesep
TranslateOut(text, sep) == Replace(text, "\n", sep)

\* The lines of a text, each with its "\n" (the last one may have none)
RECURSIVE KeepEnds(_)
KeepEnds(text) ==
    LET i == Find(text, <<"\n">>)
    IN IF text = <<>> THEN <<>>
       ELSE IF i = -1 THEN <<text>>
       ELSE <<Slice(text, 0, i + 1)>> \o KeepEnds(SliceFrom(text, i + 1))

\* f.readlines() of a file opened in text mode
readlines(bytes) == KeepEnds(TranslateIn(bytes))

\* f.writelines(lines) to a file opened in text mode: the bytes on disk
writelines(lines, sep) == TranslateOut(Concat(lines), sep)

(***************************************************************************)
(* codebanner.py: format_docstring.                                        *)
(***************************************************************************)

chunk_size == 80

\* A search for the break that starts one character too far
break_index_off_by_one(docstring) ==
    LET hits == {k \in (chunk_size + 1)..(Len(docstring) - 1) : docstring[k + 1] \in {" ", "\n"}}
    IN IF hits = {} THEN -1 ELSE CHOOSE k \in hits : \A j \in hits : k <= j

\* format_docstring, the inner "while True" loop: the index chunk_size + i of
\* the first ' ' or '\n' at or after chunk_size, or -1 when the loop runs off
\* the end of the text
break_index(docstring) ==
    LET hits == {k \in chunk_size..(Len(docstring) - 1) : docstring[k + 1] \in {" ", "\n"}}
    IN IF hits = {} THEN -1 ELSE CHOOSE k \in hits : \A j \in hits : k <= j

\* A turn of the loop that, when it cuts, goes on one character too far
loop_turn_skipping(docstring) ==
    LET next_line_break == Find(docstring, <<"\n">>)
    IN IF Len(docstring) <= chunk_size
       THEN [line |-> Strip(docstring), rest |-> docstring, done |-> TRUE, branch |-> "fits"]
       ELSE IF next_line_break >= 0 /\ next_line_break <= chunk_size
       THEN [line |-> Strip(Slice(docstring, 0, next_line_break + 1)),
             rest |-> SliceFrom(docstring, next_line_break + 1),
             done |-> FALSE, branch |-> "line break"]
       ELSE IF break_index(docstring) = -1
       THEN [line |-> docstring, rest |-> docstring, done |-> TRUE, branch |-> "no break"]
       ELSE [line |-> Strip(Slice(docstring, 0, break_index(docstring))),
             rest |-> SliceFrom(docstring, break_index(docstring) + 2),
             done |-> FALSE, branch |-> "cut"]

\* format_docstring, one turn of the "while not done" loop: the line appended,
\* the text left, whether the loop is done, and the branch taken
loop_turn(docstring) ==
    LET next_line_break == Find(docstring, <<"\n">>)
    IN IF Len(docstring) <= chunk_size
       THEN [line |-> Strip(docstring), rest |-> docstring, done |-> TRUE, branch |-> "fits"]
       ELSE IF next_line_break >= 0 /\ next_line_break <= chunk_size
       THEN [line |-> Strip(Slice(docstring, 0, next_line_break + 1)),
             rest |-> SliceFrom(docstring, next_line_break + 1),
             done |-> FALSE, branch |-> "line break"]
       ELSE IF break_index(docstring) = -1
       THEN [line |-> docstring, rest |-> docstring, done |-> TRUE, branch |-> "no break"]
       ELSE [line |-> Strip(Slice(docstring, 0, break_index(docstring))),
             rest |-> SliceFrom(docstring, break_index(docstring)),
             done |-> FALSE, branch |-> "cut"]

\* format_docstring, the "while not done" loop: the list "lines"
RECURSIVE docstring_lines(_)
docstring_lines(docstring) ==
    IF loop_turn(docstring).done THEN <<loop_turn(docstring).line>>
    ELSE <<loop_turn(docstring).line>> \o docstring_lines(loop_turn(docstring).rest)

\* format_docstring, lines 400-406: the lines joined, indented and commented
join_lines(lines, comment_char, spacer) ==
    LET joined == Join(lines, <<"\n">>)
        spaced == IF joined # <<>> THEN spacer \o joined ELSE joined
    IN Replace(spaced, "\n", <<"\n">> \o comment_char \o spacer)

\* CodeBanner.format_docstring
format_docstring(docstring, comment_char, spacer) ==
    join_lines(docstring_lines(docstring), comment_char, spacer)

\* tab_space of write_docstring, the unit of the spacer format_docstring is given
tab_space == 4

(***************************************************************************)
(* codebanner.py: write_docstring.                                         *)
(***************************************************************************)

\* write_docstring.tab
tab(count) == [i \in 1..(tab_space * count) |-> " "]

\* write_docstring.make_list_item
make_list_item(comment_char, indent, key, val) ==
    LET list_prefix == Slice(tab(indent), 0, Len(tab(indent)) - 1) \o <<"-">>
    IN comment_char \o list_prefix \o <<" ">> \o key \o <<" ", ":", " ">> \o val \o <<"\n">>

\* write_docstring, lines 273-301: one turn of the loop over the lines read
scan_line(s, line, line_no, language) ==
    LET skips == skip_patterns(language)
        comments == comment_pattern(language)
        skipped == ~s.skip_done /\ \E k \in 1..Len(skips) : re_match(skips[k], line)
        is_comment == \E k \in 1..Len(comments) : re_match(comments[k], line)
    IN IF s.header_finished THEN s
       ELSE IF skipped THEN [s EXCEPT !.start_line = @ + 1]
       ELSE IF is_comment
       THEN [s EXCEPT !.start_line = IF s.skip_done = FALSE THEN line_no ELSE @,
                      !.skip_done = TRUE,
                      !.comment_lines = @ + 1]
       ELSE [s EXCEPT !.header_finished = TRUE]

RECURSIVE scan_from(_, _, _, _)
scan_from(all_lines, line_no, s, language) ==
    IF line_no >= Len(all_lines) THEN s
    ELSE scan_from(all_lines, line_no + 1,
                   scan_line(s, all_lines[line_no + 1], line_no, language), language)

\* write_docstring, lines 266-301: start_line and comment_lines of a file
header_scan(all_lines, language) ==
    scan_from(all_lines, 0,
              [start_line |-> 0, comment_lines |-> 0,
               skip_done |-> FALSE, header_finished |-> FALSE],
              language)

\* get_edit_years: the sorted years of the file's history; years[0] is the least
get_first_edit_year(years) ==
    IF years = {} THEN -1 ELSE CHOOSE y \in years : \A z \in years : y <= z

\* A rendered_date that does not compare the two years
rendered_date_uncompared(start_date, end_date, years) ==
    LET start == IF start_date = <<>> THEN IntToStr(get_first_edit_year(years))
                 ELSE start_date
        double_date == start_date # <<>> /\ end_date # <<>>
    IN IF double_date THEN start \o <<"-">> \o end_date ELSE start

\* write_docstring, lines 306-322: rendered_date.  When start_date is empty it
\* becomes the int of get_first_edit_year and double_date is already False, so
\* the comparison of that int with the str end_date is never decisive.
rendered_date(start_date, end_date, years) ==
    LET start == IF start_date = <<>> THEN IntToStr(get_first_edit_year(years))
                 ELSE start_date
        double_date == start_date # <<>> /\ end_date # <<>> /\ start # end_date
    IN IF double_date THEN start \o <<"-">> \o end_date ELSE start

\* An Enum member compared with a bool: never equal
EnumEqualsBool(member, b) == FALSE

\* write_docstring, lines 327-332: comment_char, or <<>> where it raises.  The
\* first list is [Language.CPP, Language.JAVASCRIPT, language == Language.TYPESCRIPT]:
\* its third element is a bool.
comment_char_of(language) ==
    IF \/ language = "CPP"
       \/ language = "JAVASCRIPT"
       \/ EnumEqualsBool(language, language = "TYPESCRIPT")
    THEN <<"/", "/">>
    ELSE IF language \in {"PYTHON", "BASH", "CMAKE"} THEN <<"#">>
    ELSE <<>>

\* write_docstring, lines 334-364: new_header
new_header(filepath, file_entry, cfg, language, years) ==
    LET docstring == file_entry["docstring"]
        add_shebang == IF "add_shebang" \notin DOMAIN file_entry
                       THEN language = "BASH" ELSE file_entry["add_shebang"]
        author == IF "author" \notin DOMAIN file_entry THEN <<>> ELSE file_entry["author"]
        contributors == IF "contributors" \notin DOMAIN file_entry THEN <<>>
                        ELSE file_entry["contributors"]
        cc == comment_char_of(language)
        project_val == cfg.project \o
                       (IF Len(cfg.repo) > 0 THEN <<" ", "(">> \o cfg.repo \o <<")">> ELSE <<>>)
    IN  (IF add_shebang THEN shebang(language, add_shebang) \o <<"\n", "\n">> ELSE <<>>)
        \o cc \o tab(1) \o Basename(filepath) \o <<"\n">>
        \o (IF Len(docstring) > 0
            THEN cc \o format_docstring(docstring, cc, tab(2)) \o <<"\n">> ELSE <<>>)
        \o cc \o <<"\n">>
        \o (IF Len(author) > 0
            THEN make_list_item(cc, 1, TXT_Author, cfg.authors[author]) ELSE <<>>)
        \o (IF Len(contributors) > 0
            THEN make_list_item(cc, 1, TXT_Contributors, <<>>)
                 \o Concat([k \in 1..Len(contributors) |->
                        cc \o Slice(tab(2), 0, Len(tab(2)) - 1) \o <<"-", " ">>
                        \o cfg.authors[contributors[k]] \o <<"\n">>])
            ELSE <<>>)
        \o make_list_item(cc, 1, TXT_License, cfg.license)
        \o make_list_item(cc, 1, TXT_Project, project_val)
        \o cc \o <<"\n">>
        \o cc \o tab(1) \o TXT_Copyright
           \o rendered_date(cfg.copyright_start_date, cfg.copyright_end_date, years)
           \o <<" ">> \o cfg.copyright_owner \o <<"\n">>

\* write_docstring, lines 303-304 and 366-370: all_lines with the comment block
\* popped and the lines of the new header inserted at start_line
replace_header(all_lines, s, header) ==
    LET header_lines == Split(header, "\n")
    IN  Slice(all_lines, 0, s.start_line)
        \o [k \in 1..Len(header_lines) |-> header_lines[k] \o <<"\n">>]
        \o SliceFrom(all_lines, s.start_line + s.comment_lines)

Missing == <<"<no such file>">>

\* The exception write_docstring raises before it opens the file for writing,
\* or "" when it raises none
write_docstring_raises(filepath, file_entry, bytes, cfg, years) ==
    LET language == CodeBanner_get_language(filepath)
        author == IF "author" \notin DOMAIN file_entry THEN <<>> ELSE file_entry["author"]
        contributors == IF "contributors" \notin DOMAIN file_entry THEN <<>>
                        ELSE file_entry["contributors"]
    IN IF language = UnknownLanguage THEN UnknownLanguage
       ELSE IF "docstring" \notin DOMAIN file_entry THEN "KeyError: docstring"
       ELSE IF bytes = Missing THEN "FileNotFoundError"
       ELSE IF cfg.copyright_start_date = <<>> /\ years = {}
       THEN "RuntimeError: Cannot find edit year"
       ELSE IF comment_char_of(language) = <<>> THEN "Exception: Unknown language"
       ELSE IF Len(author) > 0 /\ author \notin DOMAIN cfg.authors THEN "KeyError: author"
       ELSE IF \E k \in 1..Len(contributors) : contributors[k] \notin DOMAIN cfg.authors
       THEN "KeyError: contributor"
       ELSE ""

\* A write_docstring that opens the file for writing before it builds the header
write_docstring_opens_early(filepath, file_entry, bytes, cfg, years, sep) ==
    LET raises == write_docstring_raises(filepath, file_entry, bytes, cfg, years)
        language == CodeBanner_get_language(filepath)
        all_lines == readlines(bytes)
        s == header_scan(all_lines, language)
        header == new_header(filepath, file_entry, cfg, language, years)
    IN IF raises \in {"KeyError: author", "KeyError: contributor"}
       THEN [raised |-> raises, bytes |-> <<>>]
       ELSE IF raises # ""
       THEN [raised |-> raises, bytes |-> bytes]
       ELSE [raised |-> "", bytes |-> writelines(replace_header(all_lines, s, header), sep)]

\* CodeBanner.write_docstring: what it raises, and the bytes of the file after it
write_docstring(filepath, file_entry, bytes, cfg, years, sep) ==
    LET raises == write_docstring_raises(filepath, file_entry, bytes, cfg, years)
        language == CodeBanner_get_language(filepath)
        all_lines == readlines(bytes)
        s == header_scan(all_lines, language)
        header == new_header(filepath, file_entry, cfg, language, years)
    IN IF raises # ""
       THEN [raised |-> raises, bytes |-> bytes]
       ELSE [raised |-> "", bytes |-> writelines(replace_header(all_lines, s, header), sep)]

(***************************************************************************)
(* codebanner.py: write_files, the "write" command.                        *)
(***************************************************************************)

\* A write_files that does not test whether the file exists
isfile_unchecked(bytes) == TRUE

\* write_files, line 217: path.isfile(filepath)
isfile(bytes) == bytes # Missing

\* The values the other tools' variables keep while the banner writer runs
WrapIdle == [docstring |-> <<>>, rest |-> <<>>, lines |-> <<>>, state |-> "idle",
             branch |-> "", result |-> <<>>]
TreeIdle == {}
FoundIdle == [state |-> "idle", folders |-> <<>>, pending |-> <<>>, files |-> <<>>,
              update |-> "", before |-> <<>>, scans |-> 0]
StatsIdle == [state |-> "idle", language |-> "unknown", lines |-> <<>>, types |-> <<>>,
              in_comment |-> FALSE, code |-> 0, comment |-> 0, blank |-> 0]
LangIdle == [state |-> "idle", filename |-> <<>>, banner |-> "", stats |-> ""]

\* main, action 'write': a run of write_files begins
StartWrite ==
    /\ batch.state \in {"idle", "done", "aborted"}
    /\ runs < MaxRuns
    /\ runs' = runs + 1
    /\ batch' = [state |-> "running", pos |-> 0, log |-> <<>>]
    /\ UNCHANGED <<disk, linesep, config, history, last, wrap, tree, found, stats, names>>

\* write_files: one turn of its loop over config['files']
WriteFilesStep ==
    /\ batch.state = "running"
    /\ batch.pos < Len(config.files)
    /\ LET file == config.files[batch.pos + 1]
           r == write_docstring(file.path, file.entry, disk[file.path], config,
                                history[file.path], linesep)
       IN IF ~isfile(disk[file.path])
          THEN /\ batch' = [batch EXCEPT !.pos = @ + 1,
                                         !.log = Append(@, "warning: File missing")]
               /\ UNCHANGED <<disk, last>>
          ELSE /\ disk' = [disk EXCEPT ![file.path] = r.bytes]
               /\ last' = [run |-> runs, pos |-> batch.pos, path |-> file.path,
                           input |-> disk[file.path], raised |-> r.raised]
               /\ batch' = IF r.raised = ""
                           THEN [batch EXCEPT !.pos = @ + 1, !.log = Append(@, "written")]
                           ELSE [batch EXCEPT !.state = "aborted",
                                              !.log = Append(@, r.raised)]
    /\ UNCHANGED <<linesep, config, history, runs, wrap, tree, found, stats, names>>

\* write_files: the loop is over, the command returns
WriteFilesReturn ==
    /\ batch.state = "running"
    /\ batch.pos = Len(config.files)
    /\ batch' = [batch EXCEPT !.state = "done"]
    /\ UNCHANGED <<disk, linesep, config, history, last, runs, wrap, tree, found, stats, names>>

(***************************************************************************)
(* The files and configurations the banner writer is run on.               *)
(***************************************************************************)

Absent == <<"<absent>">>

\* A FileEntry: a dict that holds only the keys given
MkEntry(docstring, add_shebang, author, contributors) ==
    [key \in {"docstring"}
             \cup (IF add_shebang # "absent" THEN {"add_shebang"} ELSE {})
             \cup (IF author # Absent THEN {"author"} ELSE {})
             \cup (IF contributors # Absent THEN {"contributors"} ELSE {}) |->
        CASE key = "docstring" -> docstring
          [] key = "add_shebang" -> (add_shebang = "true")
          [] key = "author" -> author
          [] key = "contributors" -> contributors]

BaseConfig ==
    [license |-> LIT_MIT, project |-> <<"P">>, repo |-> <<>>,
     copyright_owner |-> <<"O">>,
     copyright_start_date |-> LIT_2020, copyright_end_date |-> LIT_2023,
     authors |-> (<<"u">> :> <<"U", "n">>),
     folders |-> <<>>, include_patterns |-> <<>>, exclude_patterns |-> <<>>,
     files |-> <<>>]

NoCall == [run |-> 0, pos |-> 0, path |-> <<>>, input |-> <<>>, raised |-> "no call"]

BannerPaths == {PATH_a_js, PATH_a_py, PATH_a_ts, PATH_a_c, PATH_a_sh, NAME_CMakeLists, PATH_a_xyz}

\* The marker of a line comment in the language of a file name
MarkerOf(path) ==
    IF CodeBanner_get_language(path) \in {"CPP", "JAVASCRIPT", "TYPESCRIPT"}
    THEN <<"/", "/">> ELSE <<"#">>

\* Lines a file may hold: a comment, an empty line, code, a skipped directive
LineBodies(path) ==
    {MarkerOf(path) \o <<" ", "c">>, <<>>, <<"x", ";">>}
    \cup (IF CodeBanner_get_language(path) = "TYPESCRIPT"
          THEN {<<"/", "/", " ">> \o TXT_ts_check} ELSE {})

\* The bytes of a file of the given lines, by its line endings
FileBytes(bodies, style) ==
    Concat([k \in 1..Len(bodies) |->
        bodies[k] \o (CASE style = "crlf" -> <<"\r", "\n">>
                        [] style = "lf" -> <<"\n">>
                        [] style = "lf, none at the end" ->
                              IF k = Len(bodies) THEN <<>> ELSE <<"\n">>)])

\* One configured file whose content, line endings and shebang option vary
InitContent ==
    \E path \in BannerPaths, n \in 0..MaxLines,
       style \in {"lf", "crlf", "lf, none at the end"},
       docstring \in {<<>>, <<"a", "\n", "b">>},
       add_shebang \in {"true", "false"},
       sep \in {<<"\n">>, <<"\r", "\n">>} :
      \E bodies \in [1..n -> LineBodies(path)] :
        /\ disk = (path :> FileBytes(bodies, style))
        /\ linesep = sep
        /\ config = [BaseConfig EXCEPT !.files =
                        <<[path |-> path, entry |-> MkEntry(docstring, add_shebang, Absent, Absent)]>>]
        /\ history = (path :> {2019})

\* One configured file, the copyright years and the file's history vary
InitDates ==
    \E start \in {<<>>, LIT_2020, LIT_2021},
       end \in {<<>>, LIT_2020, LIT_2023, LIT_2024},
       years \in {{}, {2019}, {2022, 2018}} :
        /\ disk = (PATH_a_py :> <<"x", ";", "\n">>)
        /\ linesep = <<"\n">>
        /\ config = [BaseConfig EXCEPT !.copyright_start_date = start,
                                       !.copyright_end_date = end,
                                       !.files = <<[path |-> PATH_a_py,
                                                    entry |-> MkEntry(<<>>, "absent", Absent, Absent)]>>]
        /\ history = (PATH_a_py :> years)

\* The files a batch is made of: present or missing, with the entry of each
Pool ==
    {[path |-> PATH_a_py, bytes |-> <<"#", " ", "o", "\n", "x", ";", "\n">>,
      entry |-> MkEntry(<<"d">>, "absent", <<"u">>, <<<<"u">>>>)],
     [path |-> PATH_b_py, bytes |-> Missing,
      entry |-> MkEntry(<<>>, "absent", Absent, Absent)],
     [path |-> PATH_a_sh, bytes |-> <<"x", ";", "\n">>,
      entry |-> MkEntry(<<>>, "absent", <<"z">>, Absent)],
     [path |-> PATH_a_js, bytes |-> <<"x", ";", "\n">>,
      entry |-> MkEntry(<<>>, "true", Absent, Absent)],
     [path |-> PATH_a_xyz, bytes |-> <<"x", ";", "\n">>,
      entry |-> MkEntry(<<>>, "absent", Absent, Absent)],
     [path |-> PATH_a_ts, bytes |-> <<"x", ";", "\n">>,
      entry |-> MkEntry(<<>>, "absent", Absent, Absent)],
     [path |-> PATH_a_c, bytes |-> <<"x", ";", "\n">>,
      entry |-> MkEntry(<<>>, "absent", Absent, <<<<"u">>, <<"z">>>>)],
     [path |-> PATH_c_py, bytes |-> <<"x", ";", "\n">>,
      entry |-> MkEntry(<<>>, "absent", <<>>, <<>>)]}

\* Several configured files, in any order, some of them missing or in error
InitBatch ==
    \E n \in 1..MaxFiles :
      \E members \in [1..n -> Pool] :
        /\ \A i, j \in 1..n : i # j => members[i].path # members[j].path
        /\ disk = [p \in {members[i].path : i \in 1..n} |->
                      (CHOOSE m \in Pool : m.path = p).bytes]
        /\ linesep = <<"\n">>
        /\ config = [BaseConfig EXCEPT !.files =
                        [i \in 1..n |-> [path |-> members[i].path, entry |-> members[i].entry]]]
        /\ history = [p \in {members[i].path : i \in 1..n} |-> {2019}]

Init ==
    /\ InitContent \/ InitDates \/ InitBatch
    /\ last = NoCall
    /\ runs = 0
    /\ batch = [state |-> "idle", pos |-> 0, log |-> <<>>]
    /\ wrap = WrapIdle
    /\ tree = TreeIdle
    /\ found = FoundIdle
    /\ stats = StatsIdle
    /\ names = LangIdle

Next == StartWrite \/ WriteFilesStep \/ WriteFilesReturn

Spec == Init /\ [][Next]_vars

(***************************************************************************)
(* Properties of the banner writer.                                        *)
(***************************************************************************)

\* The lines of a file as they are on disk, each with its own line ending
RECURSIVE RawLines(_)
RawLines(bytes) ==
    LET ends == {i \in 1..Len(bytes) :
                    \/ bytes[i] = "\n"
                    \/ bytes[i] = "\r" /\ ~(i < Len(bytes) /\ bytes[i + 1] = "\n")}
        e == CHOOSE i \in ends : \A j \in ends : i <= j
    IN IF bytes = <<>> THEN <<>>
       ELSE IF ends = {} THEN <<bytes>>
       ELSE <<SubSeq(bytes, 1, e)>> \o RawLines(SubSeq(bytes, e + 1, Len(bytes)))

\* A line of the header region: a skip line, a line comment or a blank line
IsHeaderLine(line, path) ==
    LET language == CodeBanner_get_language(path)
        text == TranslateIn(line)
    IN \/ \E k \in 1..Len(skip_patterns(language)) : re_match(skip_patterns(language)[k], text)
       \/ \E k \in 1..Len(comment_pattern(language)) : re_match(comment_pattern(language)[k], text)

\* The bytes of a file from its first line that is no header line
BodyBytes(bytes, path) ==
    LET raw == RawLines(bytes)
        body == {k \in 1..Len(raw) : ~IsHeaderLine(raw[k], path)}
    IN IF body = {} THEN <<>>
       ELSE Concat(SubSeq(raw, CHOOSE k \in body : \A j \in body : k <= j, Len(raw)))

\* C1: rewriting is idempotent: a second write_docstring of a file, with the
\* same configuration and entry, leaves the bytes of the file as the first
\* write left them.
C1_RewriteIdempotent ==
    (last.run >= 2 /\ last.raised = "") => disk[last.path] = last.input

\* C2: header isolation: the first line that is no skip line, comment line or
\* blank line, and every line after it, are a byte-identical suffix of the
\* rewritten file.
C2_HeaderIsolation ==
    last.raised = "" => EndsWith(disk[last.path], BodyBytes(last.input, last.path))

\* C4: when the entry names an author or contributor that is no key of the
\* authors mapping, write_docstring raises, the bytes of the file are what
\* they were before the call, and write_files stops at that file.
C4_UnknownAuthorNoWrite ==
    (last.run = runs /\ last.raised \in {"KeyError: author", "KeyError: contributor"}) =>
        /\ disk[last.path] = last.input
        /\ batch.state = "aborted"
        /\ batch.pos = last.pos
        /\ Len(batch.log) = last.pos + 1

\* C4 happens: an unknown author stopped a run at a file that is not the last
C4_Witness ==
    /\ last.run = runs
    /\ last.raised = "KeyError: author"
    /\ last.input # <<>>
    /\ Len(config.files) > last.pos + 1

\* The year expression the copyright line is to show
ExpectedYears(start, end, years) ==
    IF start = <<>>
    THEN IntToStr(CHOOSE y \in years : \A z \in years : y <= z)
    ELSE IF end = <<>> \/ end = start THEN start
    ELSE start \o <<"-">> \o end

\* The lines of a file that are copyright lines of a banner
CopyrightLines(bytes, path) ==
    LET lines == readlines(bytes)
    IN {lines[k] : k \in {i \in 1..Len(lines) :
            StartsWith(lines[i], comment_char_of(CodeBanner_get_language(path))
                                 \o tab(1) \o TXT_Copyright)}}

\* C6: the copyright line shows the start year alone when the end year is
\* empty or the same, start-end when both are given and differ, and the first
\* year of the file's history alone when the start year is empty.
C6_YearExpression ==
    LET start == config.copyright_start_date
        end == config.copyright_end_date
        cc == comment_char_of(CodeBanner_get_language(last.path))
        shown(years) == {cc \o tab(1) \o TXT_Copyright \o years \o <<" ">>
                         \o config.copyright_owner \o <<"\n">>}
        lines == CopyrightLines(disk[last.path], last.path)
    IN last.raised = "" =>
        /\ lines = shown(ExpectedYears(start, end, history[last.path]))
        /\ (start = LIT_2020 /\ end = LIT_2020) => lines = shown(LIT_2020)
        /\ (start = LIT_2020 /\ end = LIT_2023) =>
              lines = shown(<<"2", "0", "2", "0", "-", "2", "0", "2", "3">>)
        /\ (start = <<>> /\ end = LIT_2024 /\ history[last.path] = {2022, 2018}) =>
              lines = shown(<<"2", "0", "1", "8">>)
        /\ (start = LIT_2021 /\ end = <<>>) => lines = shown(LIT_2021)

\* C6 happens: a banner was written with no start year and an end year
C6_Witness ==
    /\ last.raised = ""
    /\ config.copyright_start_date = <<>>
    /\ config.copyright_end_date = LIT_2024
    /\ history[last.path] = {2022, 2018}

\* C7: a configured file that is missing is skipped with a warning and never
\* stops the run: a run stops only at a file that exists, a run that ends has
\* written every file that exists, and nothing is created at a missing path.
C7_MissingFileSkipped ==
    /\ batch.state = "aborted" =>
          /\ isfile(disk[config.files[batch.pos + 1].path])
          /\ batch.log[Len(batch.log)] # "warning: File missing"
    /\ \A i \in 1..Len(batch.log) :
          /\ batch.log[i] = "warning: File missing" <=> disk[config.files[i].path] = Missing
          /\ i < Len(batch.log) => batch.log[i] \in {"written", "warning: File missing"}
    /\ batch.state = "done" =>
          /\ Len(batch.log) = Len(config.files)
          /\ \A i \in 1..Len(config.files) :
                disk[config.files[i].path] # Missing => batch.log[i] = "written"

\* C7 happens: a run ended that wrote a file before and a file after a missing one
C7_Witness ==
    /\ batch.state = "done"
    /\ batch.log = <<"written", "warning: File missing", "written">>

\* C11: for every language CodeBanner.get_language answers, write_docstring
\* has a comment syntax and raises no unknown-language error, and the title
\* line and every banner line down to the copyright line start with the line
\* comment marker of the language: '//' for C/C++, JavaScript and TypeScript,
\* '#' for Python, Bash and CMake.
C11_CommentSyntax ==
    (last.raised # "no call" /\ CodeBanner_get_language(last.path) \in BannerLanguages) =>
        /\ last.raised \notin {"Exception: Unknown language", "NotImplementedError"}
        /\ last.raised = "" =>
              LET lines == readlines(disk[last.path])
                  marker == MarkerOf(last.path)
              IN \E t \in 1..Len(lines) : \E c \in t..Len(lines) :
                    /\ lines[t] = marker \o tab(1) \o Basename(last.path) \o <<"\n">>
                    /\ StartsWith(lines[c], marker \o tab(1) \o TXT_Copyright)
                    /\ \A i \in t..c : StartsWith(lines[i], marker)

\* The number of leading lines of a file that match a skip pattern
SkipCount(lines, language) ==
    LET skipped(i) == \E k \in 1..Len(skip_patterns(language)) :
                         re_match(skip_patterns(language)[k], lines[i])
    IN CHOOSE n \in 0..Len(lines) :
          /\ \A i \in 1..n : skipped(i)
          /\ n < Len(lines) => ~skipped(n + 1)

\* The index of the last line of the run of comment and blank lines that
\* follows the first n lines, n when there is none
BlockEnd(lines, n, language) ==
    LET comment(i) == \E k \in 1..Len(comment_pattern(language)) :
                         re_match(comment_pattern(language)[k], lines[i])
    IN CHOOSE j \in n..Len(lines) :
          /\ \A i \in (n + 1)..j : comment(i)
          /\ j < Len(lines) => ~comment(j + 1)

\* C12: for a file that begins with skip lines (the TypeScript '// @ts-check'
\* or '// @ts-nocheck'), write_docstring writes back the skip lines, then the
\* lines of the new banner (down to the copyright line and the empty line that
\* ends it), then the lines that follow the run of comment and blank lines
\* after the skip lines, and nothing else.
C12_SkipLinesKept ==
    LET language == CodeBanner_get_language(last.path)
        lines == readlines(last.input)
        out == readlines(disk[last.path])
        n == SkipCount(lines, language)
        j == BlockEnd(lines, n, language)
        banner == Len(out) - n - (Len(lines) - j)
    IN (/\ last.raised \in {"", "Exception: Unknown language"}
        /\ language = "TYPESCRIPT"
        /\ n >= 1) =>
          /\ last.raised = ""
          /\ banner >= 2
          /\ SubSeq(out, 1, n) = SubSeq(lines, 1, n)
          /\ SubSeq(out, n + banner + 1, Len(out)) = SubSeq(lines, j + 1, Len(lines))
          /\ out[n + 1] \in {TXT_node \o <<"\n">>,
                             <<"/", "/">> \o tab(1) \o Basename(last.path) \o <<"\n">>}
          /\ StartsWith(out[n + banner - 1], <<"/", "/">> \o tab(1) \o TXT_Copyright)
          /\ out[n + banner] = <<"\n">>

(***************************************************************************)
(* format_docstring on descriptions of words, spaces and line breaks.      *)
(***************************************************************************)

\* A word of n letters
Word(n, letter) == [i \in 1..n |-> letter]

Pieces == {Word(30, "a"), Word(50, "b"), <<" ">>, <<"\n">>}

BannerIdle ==
    /\ disk = <<>>
    /\ linesep = <<"\n">>
    /\ config = BaseConfig
    /\ history = <<>>
    /\ last = NoCall
    /\ runs = 0
    /\ batch = [state |-> "idle", pos |-> 0, log |-> <<>>]

InitWrap ==
    /\ \E n \in 0..MaxPieces :
         \E pieces \in [1..n -> Pieces] :
            wrap = [docstring |-> Concat(pieces), rest |-> Concat(pieces), lines |-> <<>>,
                    state |-> "loop", branch |-> "", result |-> <<>>]
    /\ BannerIdle
    /\ tree = TreeIdle
    /\ found = FoundIdle
    /\ stats = StatsIdle
    /\ names = LangIdle

\* format_docstring: one turn of the "while not done" loop
FormatTurn ==
    /\ wrap.state = "loop"
    /\ LET t == loop_turn(wrap.rest)
       IN wrap' = [wrap EXCEPT !.lines = Append(@, t.line),
                               !.rest = t.rest,
                               !.branch = t.branch,
                               !.state = IF t.done THEN "joining" ELSE "loop"]
    /\ UNCHANGED <<bannerVars, tree, found, stats, names>>

\* format_docstring: the lines are joined and the text is returned
FormatReturn ==
    /\ wrap.state = "joining"
    /\ wrap' = [wrap EXCEPT !.result = join_lines(wrap.lines, <<"#">>, tab(2)),
                            !.state = "returned"]
    /\ UNCHANGED <<bannerVars, tree, found, stats, names>>

NextWrap == FormatTurn \/ FormatReturn

SpecWrap == InitWrap /\ [][NextWrap]_vars

\* C5 as claimed: of a description longer than 80 characters, every produced
\* line except possibly the last is at most 80 characters long.
C5_LinesWithinWidth ==
    (wrap.state = "returned" /\ Len(wrap.docstring) > chunk_size) =>
        \A k \in 1..(Len(wrap.lines) - 1) : Len(wrap.lines[k]) <= chunk_size

\* C5 as amended: a description longer than 80 characters is broken at a line
\* break within its first 81 characters or else at the first space or line
\* break at or after column 80, so that every produced line except possibly
\* the last is at most 80 characters long or holds no space or line break
\* from column 80 on.
C5_BreakAtOrAfterWidth ==
    /\ (wrap.state = "loop" /\ wrap.branch = "cut") => Head(wrap.rest) \in {" ", "\n"}
    /\ (wrap.state = "returned" /\ Len(wrap.docstring) > chunk_size) =>
          \A k \in 1..(Len(wrap.lines) - 1) :
              \/ Len(wrap.lines[k]) <= chunk_size
              \/ \A i \in (chunk_size + 1)..Len(wrap.lines[k]) :
                    wrap.lines[k][i] \notin {" ", "\n"}

\* C5 happens: a line that is not the last came out longer than 80 characters
C5_Witness ==
    /\ wrap.state = "returned"
    /\ Len(wrap.lines) >= 2
    /\ Len(wrap.lines[1]) > chunk_size

\* The characters of a text that are no whitespace, in their order
NonSpace(s) == SelectSeq(s, LAMBDA c : ~IsSpace(c))

\* The same, without the comment marker that format_docstring is given
Letters(s) == SelectSeq(s, LAMBDA c : ~IsSpace(c) /\ c # "#")

\* C16: format_docstring terminates on every description: each turn of its
\* loop ends the loop or leaves a strictly shorter text, so that the turns
\* taken and the characters left never exceed the length of the description;
\* and only whitespace is lost: the characters of the description that are no
\* whitespace are, in the same order and each once, those of the produced
\* lines and of the returned text.
C16_TerminatesKeepingText ==
    /\ wrap.state = "loop" =>
          /\ Len(wrap.lines) + Len(wrap.rest) <= Len(wrap.docstring)
          /\ loop_turn(wrap.rest).done \/ Len(loop_turn(wrap.rest).rest) < Len(wrap.rest)
    /\ wrap.state \in {"joining", "returned"} =>
          /\ Len(wrap.lines) <= Len(wrap.docstring) + 1
          /\ NonSpace(Concat(wrap.lines)) = NonSpace(wrap.docstring)
    /\ wrap.state = "returned" => Letters(wrap.result) = NonSpace(wrap.docstring)

\* C16 happens: a description was cut at a space and at a line break, lost
\* whitespace, and was returned as three lines or more
C16_Witness ==
    /\ wrap.state = "returned"
    /\ Len(wrap.lines) >= 3
    /\ Len(wrap.docstring) > 2 * chunk_size
    /\ \E i \in 1..Len(wrap.docstring) : wrap.docstring[i] = "\n"
    /\ Len(Concat(wrap.lines)) < Len(wrap.docstring)

(***************************************************************************)
(* codestats.py: the line classifier.                                      *)
(***************************************************************************)

\* get_line_type: the LineType of a line, given the in_comment it is called with
get_line_type(line, lang, in_comment) ==
    LET stripped == Strip(line)
        block == /\ StartsWith(stripped, <<"/", "*">>)
                 /\ Len(stripped) >= 4
                 /\ EndsWith(stripped, <<"*", "/">>)
    IN IF stripped = <<>> THEN "BLANK"
       ELSE IF in_comment THEN "COMMENT"
       ELSE IF lang \in {"C", "CPP", "TYPESCRIPT", "JAVASCRIPT", "JENKINS"}
       THEN \* '^\s*(\/\/.+)|(\/\*.*\*\/)\s*$'
            IF (StartsWith(stripped, <<"/", "/">>) /\ Len(stripped) >= 3) \/ block
            THEN "COMMENT" ELSE "CODE"
       ELSE IF lang \in {"PYTHON", "CMAKE", "BASH", "DOCKER"}
       THEN \* '^\s*#.+\s*$'
            IF StartsWith(stripped, <<"#">>) /\ Len(stripped) >= 2
            THEN "COMMENT" ELSE "CODE"
       ELSE IF lang \in {"CSS"}
       THEN \* '^\s*(\/\*.*\*\/)\s*$'
            IF block THEN "COMMENT" ELSE "CODE"
       ELSE IF lang \in {"HTML"}
       THEN \* '^\s*<!--.*-->\s*$'
            IF /\ StartsWith(stripped, <<"<", "!", "-", "-">>)
               /\ Len(stripped) >= 7
               /\ EndsWith(stripped, <<"-", "-", ">">>)
            THEN "COMMENT" ELSE "CODE"
       ELSE "CODE"

\* check_multiline_comment_token, lines 292-299: the number of '"""' in a line,
\* each search starting three characters after the last one found
RECURSIVE count_tokens(_, _)
count_tokens(line, from) ==
    LET search == FindFrom(line, <<"\"", "\"", "\"">>, from)
    IN IF search = -1 THEN 0 ELSE 1 + count_tokens(line, search + 3)

\* check_multiline_comment_token
check_multiline_comment_token(line, lang, in_comment) ==
    LET start == RFind(line, <<"/", "*">>)
        end == RFind(line, <<"*", "/">>)
        token_count == count_tokens(line, 0)
    IN IF /\ lang \in {"C", "CPP", "CSS", "JAVASCRIPT", "TYPESCRIPT", "JENKINS"}
          /\ end = -1 /\ start # -1
       THEN "START"
       ELSE IF /\ lang \in {"C", "CPP", "CSS", "JAVASCRIPT", "TYPESCRIPT", "JENKINS"}
               /\ end # -1 /\ start = -1
       THEN "END"
       ELSE IF /\ lang \in {"C", "CPP", "CSS", "JAVASCRIPT", "TYPESCRIPT", "JENKINS"}
               /\ end # -1 /\ start > end
       THEN "START"
       ELSE IF lang \in {"PYTHON"} /\ token_count > 0
       THEN IF token_count % 2 = 0
            THEN (IF in_comment THEN "START" ELSE "END")
            ELSE (IF in_comment THEN "END" ELSE "START")
       ELSE "NONE"

\* An update of in_comment that no END token clears
next_in_comment_sticky(multiline_comment_token, in_comment) ==
    IF multiline_comment_token = "START" THEN TRUE ELSE in_comment

\* scan_file, lines 350-354: in_comment after the token of a line
next_in_comment(multiline_comment_token, in_comment) ==
    IF multiline_comment_token = "START" THEN TRUE
    ELSE IF multiline_comment_token = "END" THEN FALSE
    ELSE in_comment

(***************************************************************************)
(* scan_file on files of a few lines.                                      *)
(***************************************************************************)

Lines_C ==
    {<<"/", "/", " ", "a", "\n">>,
     <<"\n">>,
     <<"/", "*", " ", "b", "\n">>,
     <<"c", " ", "*", "/", "\n">>,
     <<"i", "n", "t", " ", "x", ";", "\n">>,
     <<"/", "*", " ", "d", " ", "*", "/", "\n">>}

Lines_PYTHON ==
    {<<"#", " ", "a", "\n">>,
     <<"\n">>,
     <<"\"", "\"", "\"", "\n">>,
     <<"x", " ", "=", " ", "1", "\n">>,
     <<"\"", "\"", "\"", " ", "d", " ", "\"", "\"", "\"", "\n">>,
     <<"\"", "\"", "\"", "a", "\"", "\"", "\"", " ", "\"", "\"", "\"", "\n">>,
     <<"\"", "\"", "\"", "\"", "\"", "\n">>}

Lines_CSS ==
    {<<"/", "*", " ", "b", "\n">>,
     <<"c", " ", "*", "/", "\n">>,
     <<"p", " ", "{", "}", "\n">>,
     <<"/", "*", " ", "d", " ", "*", "/", "\n">>,
     <<"\n">>}

Lines_HTML ==
    {<<"<", "!", "-", "-", " ", "a", "\n">>,
     <<"b", " ", "-", "-", ">", "\n">>,
     <<"<", "!", "-", "-", " ", "c", " ", "-", "-", ">", "\n">>,
     <<"<", "p", ">", "\n">>,
     <<"\n">>}

\* The lines a file of a language is made of
StatLines(language) ==
    CASE language \in {"C", "CPP"} -> Lines_C
      [] language = "PYTHON" -> Lines_PYTHON
      [] language = "CSS" -> Lines_CSS
      [] language = "HTML" -> Lines_HTML

InitStats ==
    /\ \E language \in {"C", "CPP", "PYTHON", "CSS", "HTML"} :
          stats = [state |-> "scanning", language |-> language, lines |-> <<>>,
                   types |-> <<>>, in_comment |-> FALSE,
                   code |-> 0, comment |-> 0, blank |-> 0]
    /\ BannerIdle
    /\ wrap = WrapIdle
    /\ tree = TreeIdle
    /\ found = FoundIdle
    /\ names = LangIdle

\* scan_file: one turn of the loop over f.readlines(), on the next line of the file
ScanFileLine ==
    /\ stats.state = "scanning"
    /\ Len(stats.lines) < MaxStatLines
    /\ \E line \in StatLines(stats.language) :
         LET multiline_comment_token ==
                 check_multiline_comment_token(line, stats.language, stats.in_comment)
             in_comment == next_in_comment(multiline_comment_token, stats.in_comment)
             type == get_line_type(line, stats.language, in_comment)
         IN stats' = [stats EXCEPT !.lines = Append(@, line),
                                   !.types = Append(@, type),
                                   !.in_comment = in_comment,
                                   !.code = IF type = "CODE" THEN @ + 1 ELSE @,
                                   !.comment = IF type = "COMMENT" THEN @ + 1 ELSE @,
                                   !.blank = IF type = "BLANK" THEN @ + 1 ELSE @]
    /\ UNCHANGED <<bannerVars, wrap, tree, found, names>>

\* scan_file: the file is at its end, the report is returned
ScanFileReturn ==
    /\ stats.state = "scanning"
    /\ stats' = [stats EXCEPT !.state = "returned"]
    /\ UNCHANGED <<bannerVars, wrap, tree, found, names>>

NextStats == ScanFileLine \/ ScanFileReturn

SpecStats == InitStats /\ [][NextStats]_vars

\* The index of the line that opened the block comment line k closes, or 0:
\* line k holds a closing marker and no opening marker after it, and the
\* nearest line before it with a marker holds an unclosed opening marker
OpenerOf(lines, k) ==
    LET marked == {j \in 1..(k - 1) :
                      RFind(lines[j], <<"/", "*">>) # -1 \/ RFind(lines[j], <<"*", "/">>) # -1}
        j == CHOOSE m \in marked : \A n \in marked : m >= n
    IN IF /\ RFind(lines[k], <<"*", "/">>) # -1
          /\ RFind(lines[k], <<"/", "*">>) < RFind(lines[k], <<"*", "/">>)
          /\ marked # {}
          /\ RFind(lines[j], <<"/", "*">>) > RFind(lines[j], <<"*", "/">>)
       THEN j ELSE 0

\* C3: in a C-family file every non-blank line from the line that opens a
\* block comment through the line that closes it is COMMENT, and the lines
\* '// a', '', '/* b', 'c */', 'int x;' are COMMENT, BLANK, COMMENT, COMMENT,
\* CODE with counts code=1, comment=3, blank=1.
C3_BlockCommentLines ==
    stats.language \in {"C", "CPP"} =>
        /\ \A k \in 1..Len(stats.lines) :
              OpenerOf(stats.lines, k) # 0 =>
                 \A i \in OpenerOf(stats.lines, k)..k :
                    Strip(stats.lines[i]) # <<>> => stats.types[i] = "COMMENT"
        /\ stats.lines = <<LINE_a, <<"\n">>, LINE_b, LINE_c, LINE_x>> =>
              /\ stats.types = <<"COMMENT", "BLANK", "COMMENT", "COMMENT", "CODE">>
              /\ stats.code = 1 /\ stats.comment = 3 /\ stats.blank = 1

\* The markers that open and close a block comment in a language
BlockOpen(language) == IF language = "HTML" THEN <<"<", "!", "-", "-">> ELSE <<"/", "*">>
BlockClose(language) == IF language = "HTML" THEN <<"-", "-", ">">> ELSE <<"*", "/">>

\* The token of a line by its last opening and its last closing marker: END
\* when a closing marker exists and no opening marker follows it, START when
\* an opening marker exists with no closing marker after it, else NONE
TokenByMarkers(line, language) ==
    LET open == RFind(line, BlockOpen(language))
        close == RFind(line, BlockClose(language))
    IN IF close # -1 /\ (open = -1 \/ close > open) THEN "END"
       ELSE IF open # -1 /\ ~(close > open) THEN "START"
       ELSE "NONE"

\* The in-comment state after some lines, each line acting by its token
RECURSIVE StateByMarkers(_, _)
StateByMarkers(lines, language) ==
    IF lines = <<>> THEN FALSE
    ELSE LET token == TokenByMarkers(lines[Len(lines)], language)
         IN IF token = "END" THEN FALSE
            ELSE IF token = "START" THEN TRUE
            ELSE StateByMarkers(SubSeq(lines, 1, Len(lines) - 1), language)

\* C13: in a language with block comments (C-family, CSS, HTML) the token of
\* a line is END exactly when it holds a closing marker and either no opening
\* marker or its last opening marker before the closing one, START exactly
\* when it holds an opening marker with no closing marker after it, and NONE
\* otherwise; and scan_file makes in_comment false on END, true on START and
\* leaves it on NONE.
C13_BlockTokens ==
    stats.language \in {"C", "CPP", "CSS", "HTML"} =>
        /\ \A k \in 1..Len(stats.lines) :
              check_multiline_comment_token(
                  stats.lines[k], stats.language,
                  StateByMarkers(SubSeq(stats.lines, 1, k - 1), stats.language))
              = TokenByMarkers(stats.lines[k], stats.language)
        /\ stats.in_comment = StateByMarkers(stats.lines, stats.language)

\* The number of triple-quote tokens of a line: each run of n quotes that no
\* quote precedes or follows holds n \div 3 of them
TripleQuotes(line) ==
    LET quote(i) == i >= 1 /\ i <= Len(line) /\ line[i] = "\""
        starts == {i \in 1..Len(line) : quote(i) /\ ~quote(i - 1)}
        run(i) == CHOOSE n \in 1..Len(line) :
                     /\ \A d \in 0..(n - 1) : quote(i + d)
                     /\ ~quote(i + n)
        thirds == {<<i, t>> \in starts \X (1..Len(line)) : 3 * t <= run(i)}
    IN Cardinality(thirds)

\* The lines among the first k of a file with an odd number of triple-quote tokens
OddLines(lines, k) == {i \in 1..k : TripleQuotes(lines[i]) % 2 = 1}

\* C14: in a Python file the in-comment state that scan_file carries is
\* toggled by exactly the lines with an odd number of triple-quote tokens:
\* after any prefix of the file it is true exactly when the number of such
\* lines so far is odd.
C14_TripleQuoteParity ==
    stats.language = "PYTHON" =>
        stats.in_comment = (Cardinality(OddLines(stats.lines, Len(stats.lines))) % 2 = 1)

\* C14 happens: a line with one token, a line with two and a line with three
\* were scanned, and the state is back to false
C14_Witness ==
    /\ stats.language = "PYTHON"
    /\ Len(stats.lines) = 3
    /\ TripleQuotes(stats.lines[1]) = 1
    /\ TripleQuotes(stats.lines[2]) = 2
    /\ TripleQuotes(stats.lines[3]) = 3
    /\ ~stats.in_comment

(***************************************************************************)
(* The two get_language functions on file names.                           *)
(***************************************************************************)

NameDirs == {<<>>, <<"d", "/">>, <<"d", ".", "p", "y", "/">>}

NameStems ==
    {<<"a">>,
     <<"C", "M", "a", "k", "e", "L", "i", "s", "t", "s">>,
     <<"D", "o", "c", "k", "e", "r", "f", "i", "l", "e">>,
     <<"J", "e", "n", "k", "i", "n", "s", "f", "i", "l", "e">>,
     <<"c", "m", "a", "k", "e", "l", "i", "s", "t", "s">>,
     <<"B", ".", "x">>}

NameExts ==
    {<<>>,
     <<".", "p", "y">>,
     <<".", "P", "Y">>,
     <<".", "p", "y", "i">>,
     <<".", "c">>,
     <<".", "H">>,
     <<".", "c", "p", "p">>,
     <<".", "C", "p", "p">>,
     <<".", "h", "p", "p">>,
     <<".", "j", "s">>,
     <<".", "c", "j", "s">>,
     <<".", "t", "s">>,
     <<".", "T", "S">>,
     <<".", "s", "h">>,
     <<".", "b", "a", "s", "h">>,
     <<".", "c", "m", "a", "k", "e">>,
     <<".", "C", "M", "A", "K", "E">>,
     <<".", "h", "t", "m", "l">>,
     <<".", "H", "T", "M">>,
     <<".", "m", "d">>,
     <<".", "j", "s", "o", "n">>,
     <<".", "c", "s", "s">>,
     <<".", "b", "a", "t">>,
     <<".", "t", "x", "t">>,
     <<".", "x", "y", "z">>,
     <<".">>}

FileNames == {dir \o stem \o ext : dir \in NameDirs, stem \in NameStems, ext \in NameExts}

InitLang ==
    /\ \E filename \in FileNames :
          names = [state |-> "named", filename |-> filename, banner |-> "", stats |-> ""]
    /\ BannerIdle
    /\ wrap = WrapIdle
    /\ tree = TreeIdle
    /\ found = FoundIdle
    /\ stats = StatsIdle

\* write_docstring, line 228: the banner writer asks for the language of the file
BannerGetLanguage ==
    /\ names.state = "named"
    /\ names.banner = ""
    /\ names' = [names EXCEPT !.banner = CodeBanner_get_language(names.filename)]
    /\ UNCHANGED <<bannerVars, wrap, tree, found, stats>>

\* scan_file, line 344: the line counter asks for the language of the file
StatsGetLanguage ==
    /\ names.state = "named"
    /\ names.stats = ""
    /\ names' = [names EXCEPT !.stats = get_language(names.filename)]
    /\ UNCHANGED <<bannerVars, wrap, tree, found, stats>>

NextLang == BannerGetLanguage \/ StatsGetLanguage

SpecLang == InitLang /\ [][NextLang]_vars

\* The extension of a file name, in lower case: from the last dot of the
\* basename, a leading dot being no extension
LowerExtension(filename) ==
    LET i == RFind(Basename(filename), <<".">>)
    IN IF i > 0 THEN Lower(SliceFrom(Basename(filename), i)) ELSE <<>>

\* The rules of the banner writer: basename first, then the extension
BannerRule(filename) ==
    LET e == LowerExtension(filename)
    IN CASE Basename(filename) = NAME_CMakeLists -> "CMAKE"
         [] e \in {EXT_py, EXT_pyi} -> "PYTHON"
         [] e \in {EXT_c, EXT_cpp, EXT_h, EXT_hpp} -> "CPP"
         [] e = EXT_js -> "JAVASCRIPT"
         [] e = EXT_ts -> "TYPESCRIPT"
         [] e = EXT_sh -> "BASH"
         [] e = EXT_cmake -> "CMAKE"
         [] OTHER -> UnknownLanguage

\* The rules of the line counter: basename first, then the extension
StatsRule(filename) ==
    LET e == LowerExtension(filename)
    IN CASE Basename(filename) = NAME_CMakeLists -> "CMAKE"
         [] Basename(filename) = NAME_Dockerfile -> "DOCKER"
         [] Basename(filename) = NAME_Jenkinsfile -> "JENKINS"
         [] e = EXT_ts -> "TYPESCRIPT"
         [] e \in {EXT_c, EXT_h} -> "C"
         [] e \in {EXT_cpp, EXT_hpp} -> "CPP"
         [] e \in {EXT_py, EXT_pyi} -> "PYTHON"
         [] e \in {EXT_js, EXT_cjs} -> "JAVASCRIPT"
         [] e \in {EXT_html, EXT_htm} -> "HTML"
         [] e = EXT_md -> "MARKDOWN"
         [] e = EXT_json -> "JSON"
         [] e \in {EXT_sh, EXT_bash} -> "BASH"
         [] e = EXT_css -> "CSS"
         [] e = EXT_cmake -> "CMAKE"
         [] e = EXT_bat -> "BATCHFILE"
         [] OTHER -> UnknownLanguage

\* codestats.Language without its UNKOWN placeholder
StatsLanguages ==
    {"TYPESCRIPT", "PYTHON", "JAVASCRIPT", "HTML", "CSS", "CPP", "C", "CMAKE", "JSON",
     "MARKDOWN", "JENKINS", "DOCKER", "BASH", "BATCHFILE"}

\* C9: each classifier answers by the file name alone: an exact basename
\* (CMakeLists.txt, and Dockerfile and Jenkinsfile for the line counter) decides
\* before any extension, the extension is matched whatever its letter case,
\* every supported language is the answer for some file name, and a name that
\* matches no rule (as .xyz) raises instead of answering.
C9_Classifiers ==
    /\ names.banner # "" => names.banner = BannerRule(names.filename)
    /\ names.stats # "" => names.stats = StatsRule(names.filename)
    /\ (names.banner # "" /\ LowerExtension(names.filename) = <<".", "x", "y", "z">>)
          => names.banner = UnknownLanguage
    /\ (names.stats # "" /\ LowerExtension(names.filename) = <<".", "x", "y", "z">>)
          => names.stats = UnknownLanguage
    /\ \A tag \in BannerLanguages : \E n \in FileNames : CodeBanner_get_language(n) = tag
    /\ \A tag \in StatsLanguages : \E n \in FileNames : get_language(n) = tag

\* C9 happens: both classifiers answered for a name with an upper-case extension
C9_Witness ==
    /\ names.filename = <<"d", "/", "a", ".", "P", "Y">>
    /\ names.banner = "PYTHON"
    /\ names.stats = "PYTHON"

(***************************************************************************)
(* The command 'scan': scan_files over a tree of files, then add_files.    *)
(***************************************************************************)

\* fnmatch(name, pat) from position i of the name and j of the pattern: '*' is
\* any run of characters, '/' included, '?' is any one character
RECURSIVE fnmatch_from(_, _, _, _)
fnmatch_from(name, i, pat, j) ==
    IF j > Len(pat) THEN i > Len(name)
    ELSE IF pat[j] = "*"
         THEN \/ fnmatch_from(name, i, pat, j + 1)
              \/ (i <= Len(name) /\ fnmatch_from(name, i + 1, pat, j))
         ELSE /\ i <= Len(name)
              /\ (pat[j] = "?" \/ pat[j] = name[i])
              /\ fnmatch_from(name, i + 1, pat, j + 1)

fnmatch(name, pat) == fnmatch_from(name, 1, pat, 1)

\* The base folder, as a relative path
BaseFolder == <<".">>

\* The folder a relative path lies in
DirName(p) == IF RFind(p, <<"/">>) < 0 THEN BaseFolder ELSE Slice(p, 0, RFind(p, <<"/">>))

\* The folders of a tree of files, the base folder among them
RECURSIVE Ancestors(_)
Ancestors(p) ==
    IF DirName(p) = BaseFolder THEN {BaseFolder} ELSE {DirName(p)} \cup Ancestors(DirName(p))

Folders(files) == {BaseFolder} \cup UNION {Ancestors(f) : f \in files}

\* make_name(path.join(root, name)): the path relative to the base folder
make_name(root, name) == IF root = BaseFolder THEN name ELSE root \o <<"/">> \o name

\* The sequences that list each member of a set once
Orderings(S) == {o \in [1..Cardinality(S) -> S] : \A i, j \in 1..Cardinality(S) : i # j => o[i] # o[j]}

Range(seq) == {seq[i] : i \in 1..Len(seq)}

\* scan_files, lines 156-159
folders_to_scan(cfg) == IF Len(cfg.folders) = 0 THEN <<BaseFolder>> ELSE cfg.folders

\* scan_files, lines 163-173: the files of a folder that scan_files includes
included_files(root, files, cfg) ==
    {filename \in {make_name(root, file) : file \in files} :
        /\ \E i \in 1..Len(cfg.include_patterns) : fnmatch(filename, cfg.include_patterns[i])
        /\ ~ \E e \in 1..Len(cfg.exclude_patterns) : fnmatch(filename, cfg.exclude_patterns[e])}

\* scan_files, lines 175-184: the names of the subfolders that no exclude pattern matches
new_subdirs(root, subdirs, cfg) ==
    {subdirname \in {make_name(root, subdir) : subdir \in subdirs} :
        ~ \E e \in 1..Len(cfg.exclude_patterns) : fnmatch(subdirname, cfg.exclude_patterns[e])}

\* scan_files, line 186: 'subdirs = new_subdirs' names another list, and the
\* list that os.walk goes on with is the one it made
walk_subdirs(subdirs, kept) == subdirs

\* The FileEntry that add_files makes
new_entry == MkEntry(<<>>, "absent", Absent, Absent)

Keys(cfgfiles) == {cfgfiles[i].path : i \in 1..Len(cfgfiles)}

\* add_files, lines 208-212: the loop that adds the files not yet configured
RECURSIVE add_each(_, _)
add_each(cfgfiles, files) ==
    IF files = <<>> THEN cfgfiles
    ELSE add_each(IF Head(files) \in Keys(cfgfiles) THEN cfgfiles
                  ELSE Append(cfgfiles, [path |-> Head(files), entry |-> new_entry]),
                  Tail(files))

\* An add_files that never removes
add_files_keep_all(cfgfiles, files, remove_not_present) == add_each(cfgfiles, files)

\* add_files
add_files(cfgfiles, files, remove_not_present) ==
    LET present(e) == e.path \in Range(files)
    IN add_each(IF remove_not_present THEN SelectSeq(cfgfiles, present) ELSE cfgfiles, files)

PATH_x_c == <<"x", ".", "c">>
PATH_b_x_c == <<"b", "/", "x", ".", "c">>
PATH_b_s_y_c == <<"b", "/", "s", "/", "y", ".", "c">>
PATH_b_s_w_py == <<"b", "/", "s", "/", "w", ".", "p", "y">>
PATH_t_z_py == <<"t", "/", "z", ".", "p", "y">>
PATH_gone_c == <<"g", "o", "n", "e", ".", "c">>

\* main, line 417: the configuration file, which lies in the base folder
config_file == <<".", "c", "o", "d", "e", "b", "a", "n", "n", "e", "r", ".", "j", "s", "o", "n">>

\* The trees of files under the base folder
Trees ==
    {{config_file, PATH_x_c, PATH_b_x_c, PATH_b_s_y_c, PATH_b_s_w_py, PATH_t_z_py},
     {config_file, PATH_x_c, PATH_b_x_c, PATH_t_z_py}}

ScanFolders == {<<>>, <<<<"b">>>>, <<<<"b">>, <<"t">>>>, <<BaseFolder, <<"b", "/", "s">>>>, <<<<"q">>>>}

IncludePatterns == {<<>>, <<<<"*", ".", "c">>>>, <<<<"*", ".", "c">>, <<"*", ".", "p", "y">>>>, <<<<"*">>>>}

ExcludePatterns ==
    {<<>>, <<<<"b">>>>, <<<<"b", "/", "s">>>>, <<<<"t", "*">>>>, <<<<"b", "/", "?">>>>,
     <<<<"*", ".", "p", "y">>, <<"b", "/", "s">>>>}

ConfiguredFiles ==
    {<<>>,
     <<[path |-> PATH_x_c, entry |-> MkEntry(<<"d">>, "absent", <<"u">>, Absent)]>>,
     <<[path |-> PATH_gone_c, entry |-> MkEntry(<<"g">>, "absent", Absent, Absent)],
       [path |-> PATH_b_s_y_c, entry |-> MkEntry(<<"k">>, "true", Absent, Absent)]>>}

InitScan ==
    /\ tree \in Trees
    /\ \E folders \in ScanFolders, include \in IncludePatterns, exclude \in ExcludePatterns,
          files \in ConfiguredFiles :
          config = [BaseConfig EXCEPT !.folders = folders, !.include_patterns = include,
                                      !.exclude_patterns = exclude, !.files = files]
    /\ found = FoundIdle
    /\ disk = <<>>
    /\ linesep = <<"\n">>
    /\ history = <<>>
    /\ last = NoCall
    /\ runs = 0
    /\ batch = [state |-> "idle", pos |-> 0, log |-> <<>>]
    /\ wrap = WrapIdle
    /\ stats = StatsIdle
    /\ names = LangIdle

\* main, action 'scan': list(codebanner.scan_files()) begins
ScanStart ==
    /\ found.state \in {"idle", "updated"}
    /\ found.scans < MaxScans
    /\ found' = [state |-> "walking", folders |-> folders_to_scan(config), pending |-> <<>>,
                 files |-> <<>>, update |-> "", before |-> config.files,
                 scans |-> found.scans + 1]
    /\ UNCHANGED <<bannerVars, wrap, tree, stats, names>>

\* scan_files, line 161: os.walk starts on the next folder to scan; a folder
\* that does not exist is walked over nothing
WalkStart ==
    /\ found.state = "walking"
    /\ found.pending = <<>>
    /\ found.folders # <<>>
    /\ found' = [found EXCEPT !.folders = Tail(@),
                              !.pending = IF Head(found.folders) \in Folders(tree)
                                          THEN <<Head(found.folders)>> ELSE <<>>]
    /\ UNCHANGED <<bannerVars, wrap, tree, stats, names>>

\* scan_files, lines 161-192: one turn of the loop over os.walk, on the next
\* folder; the files and the subfolders come in the order the system lists them
WalkDir ==
    /\ found.state = "walking"
    /\ found.pending # <<>>
    /\ LET root == Head(found.pending)
           files == {Basename(f) : f \in {g \in tree : DirName(g) = root}}
           subdirs == {Basename(d) : d \in {g \in Folders(tree) \ {BaseFolder} : DirName(g) = root}}
           walked == walk_subdirs(subdirs, new_subdirs(root, subdirs, config))
       IN \E yielded \in Orderings(included_files(root, files, config)),
             below \in Orderings(walked) :
             found' = [found EXCEPT
                          !.files = @ \o [i \in 1..Len(yielded) |->
                                             Replace(yielded[i], "\\", <<"/">>)],
                          !.pending = [i \in 1..Len(below) |-> make_name(root, below[i])]
                                      \o Tail(@)]
    /\ UNCHANGED <<bannerVars, wrap, tree, stats, names>>

\* main, lines 431-439: the list is complete, and --update decides what is
\* done with it
ScanUpdate ==
    /\ found.state = "walking"
    /\ found.pending = <<>>
    /\ found.folders = <<>>
    /\ \E update \in {"no", "merge", "full"} :
         /\ found' = [found EXCEPT !.state = "updated", !.update = update]
         /\ config' = CASE update = "no" -> config
                        [] update = "merge" ->
                             [config EXCEPT !.files = add_files(@, found.files, FALSE)]
                        [] update = "full" ->
                             [config EXCEPT !.files = add_files(@, found.files, TRUE)]
    /\ UNCHANGED <<disk, linesep, history, last, runs, batch, wrap, tree, stats, names>>

NextScan == ScanStart \/ WalkStart \/ WalkDir \/ ScanUpdate

SpecScan == InitScan /\ [][NextScan]_vars

\* A file lies in a folder, or in a folder in it
Under(f, folder) == folder \in Ancestors(f)

\* A subfolder on the way from a start folder down to a file has a name that
\* an exclude pattern matches
BelowExcluded(f, start) ==
    \E d \in Ancestors(f) \ {BaseFolder, start} :
        /\ Under(d \o <<"/">>, start)
        /\ \E e \in 1..Len(config.exclude_patterns) : fnmatch(d, config.exclude_patterns[e])

\* C8: scan_files yields a path exactly when the file lies under a folder to
\* scan (the base folder when none is configured), matches an include pattern
\* and no exclude pattern; and no file below a subfolder whose name an exclude
\* pattern matches is yielded.
C8_ScanIncludeExclude ==
    found.state = "updated" =>
        /\ \A f \in Range(found.files) :
              /\ f \in tree
              /\ \E i \in 1..Len(config.include_patterns) : fnmatch(f, config.include_patterns[i])
              /\ ~ \E e \in 1..Len(config.exclude_patterns) : fnmatch(f, config.exclude_patterns[e])
              /\ \E s \in 1..Len(folders_to_scan(config)) :
                    Under(f, folders_to_scan(config)[s])
                    /\ ~BelowExcluded(f, folders_to_scan(config)[s])
        /\ \A f \in tree :
              ( /\ \E i \in 1..Len(config.include_patterns) : fnmatch(f, config.include_patterns[i])
                /\ ~ \E e \in 1..Len(config.exclude_patterns) : fnmatch(f, config.exclude_patterns[e])
                /\ \E s \in 1..Len(folders_to_scan(config)) :
                      Under(f, folders_to_scan(config)[s])
                      /\ ~BelowExcluded(f, folders_to_scan(config)[s]) )
              => f \in Range(found.files)

\* C8 without its pruning: a path is yielded exactly when the file lies under
\* a folder to scan, matches an include pattern and no exclude pattern
C8_FilesOnly ==
    found.state = "updated" =>
        Range(found.files) =
            {f \in tree :
                /\ \E i \in 1..Len(config.include_patterns) : fnmatch(f, config.include_patterns[i])
                /\ ~ \E e \in 1..Len(config.exclude_patterns) : fnmatch(f, config.exclude_patterns[e])
                /\ \E s \in 1..Len(folders_to_scan(config)) : Under(f, folders_to_scan(config)[s])}

\* C10: after scan --update, 'no' leaves the configured files as they were,
\* 'merge' keeps every entry as it was and adds an entry with an empty
\* docstring for each discovered path that had none, and 'full' makes the
\* configured paths exactly the discovered paths.
C10_UpdateModes ==
    found.state = "updated" =>
        LET old == found.before
            new == config.files
            discovered == Range(found.files)
        IN /\ \A i, j \in 1..Len(new) : new[i].path = new[j].path => i = j
           /\ found.update = "no" => new = old
           /\ found.update = "merge" =>
                 /\ Keys(new) = Keys(old) \cup discovered
                 /\ \A i \in 1..Len(old) : new[i] = old[i]
                 /\ \A i \in (Len(old) + 1)..Len(new) :
                       /\ DOMAIN new[i].entry = {"docstring"}
                       /\ new[i].entry["docstring"] = <<>>
           /\ found.update = "full" =>
                 /\ Keys(new) = discovered
                 /\ \A i \in 1..Len(new) :
                       \/ new[i] \in Range(old)
                       \/ /\ new[i].path \notin Keys(old)
                          /\ DOMAIN new[i].entry = {"docstring"}
                          /\ new[i].entry["docstring"] = <<>>

\* C10 happens: a second scan, with --update full, dropped a configured path
\* that was not discovered and added a discovered one
C10_Witness ==
    /\ found.state = "updated"
    /\ found.update = "full"
    /\ found.scans = 2
    /\ Keys(found.before) \ Range(found.files) # {}
    /\ Range(found.files) \ Keys(found.before) # {}

(***************************************************************************)
(* codestats.py: get_file_type, as scan_file calls it.                     *)
(***************************************************************************)

TXT_test_ == <<"t", "e", "s", "t", "_">>
TXT_dot_test == <<".", "t", "e", "s", "t">>

\* re.match(test_regex, basename) for test_regex = '^(test_.+)|(.+\.test(\..+)?$)'
test_regex_match(basename) ==
    \/ StartsWith(basename, TXT_test_) /\ Len(basename) > Len(TXT_test_)
    \/ \E i \in 1..(Len(basename) - Len(TXT_dot_test)) :
          /\ Slice(basename, i, i + Len(TXT_dot_test)) = TXT_dot_test
          /\ \/ i + Len(TXT_dot_test) = Len(basename)
             \/ /\ basename[i + Len(TXT_dot_test) + 1] = "."
                /\ Len(basename) > i + Len(TXT_dot_test) + 1

\* get_file_type: the FileType of a file, or the exception it raises; "exists"
\* is os.path.isfile(filename)
get_file_type(filename, lang, metadata, exists) ==
    IF ~exists THEN "Exception: is not a file"
    ELSE IF lang = "UNKOWN" THEN "Exception: Unknown language"
    ELSE IF \E k \in 1..Len(metadata.test_patterns) : fnmatch(filename, metadata.test_patterns[k])
    THEN "TEST"
    ELSE IF \E k \in 1..Len(metadata.doc_patterns) : fnmatch(filename, metadata.doc_patterns[k])
    THEN "DOC"
    ELSE IF test_regex_match(Basename(filename)) THEN "TEST"
    ELSE "CODE"

TypeNames ==
    {<<"a", ".", "p", "y">>,
     <<"t", "e", "s", "t", "_", "a", ".", "p", "y">>,
     <<"a", ".", "t", "e", "s", "t", ".", "j", "s">>,
     <<"a", ".", "t", "e", "s", "t">>,
     <<"d", "o", "c", "s", "/", "t", "e", "s", "t", "_", "a", ".", "p", "y">>,
     <<"d", "o", "c", "s", "/", "a", ".", "m", "d">>,
     <<"t", "e", "s", "t", "s", "/", "a", ".", "p", "y">>,
     <<"d", "o", "c", "s", "/", "a", ".", "t", "e", "s", "t", ".", "t", "s">>,
     <<"t", "e", "s", "t", "_">>,
     <<".", "t", "e", "s", "t", ".", "p", "y">>,
     <<"a", ".", "t", "e", "s", "t", ".">>,
     <<"a", ".", "x", "y", "z">>,
     <<"b", "/", "l", "a", "t", "e", "s", "t", "_", "a", ".", "c">>}

TestPatterns == {<<>>, <<<<"t", "e", "s", "t", "s", "/", "*">>>>, <<<<"*", ".", "j", "s">>>>}

DocPatterns == {<<>>, <<<<"d", "o", "c", "s", "/", "*">>>>, <<<<"*", ".", "m", "d">>, <<"*", ".", "t", "e", "s", "t">>>>}

TypeExcludePatterns == {<<>>, <<<<"*", ".", "m", "d">>>>}

InitType ==
    /\ \E filename \in TypeNames, test_patterns \in TestPatterns, doc_patterns \in DocPatterns,
          exclude_patterns \in TypeExcludePatterns, exists \in BOOLEAN :
          names = [state |-> "named", filename |-> filename, exists |-> exists,
                   metadata |-> [test_patterns |-> test_patterns,
                                 doc_patterns |-> doc_patterns,
                                 exclude_patterns |-> exclude_patterns],
                   language |-> "", file_type |-> ""]
    /\ BannerIdle
    /\ wrap = WrapIdle
    /\ tree = TreeIdle
    /\ found = FoundIdle
    /\ stats = StatsIdle

\* scan_file, lines 336-344: a file that is no file or that an exclude pattern
\* matches is refused, the language of the others is asked for, and a name of
\* no language is refused
ScanFileGetLanguage ==
    /\ names.state = "named"
    /\ names' = IF \/ ~names.exists
                   \/ \E k \in 1..Len(names.metadata.exclude_patterns) :
                         fnmatch(names.filename, names.metadata.exclude_patterns[k])
                THEN [names EXCEPT !.state = "raised"]
                ELSE [names EXCEPT !.language = get_language(names.filename),
                                   !.state = IF get_language(names.filename) = UnknownLanguage
                                             THEN "raised" ELSE "language"]
    /\ UNCHANGED <<bannerVars, wrap, tree, found, stats>>

\* scan_file, line 345: report.file_type = get_file_type(...)
ScanFileGetFileType ==
    /\ names.state = "language"
    /\ names' = [names EXCEPT !.state = "typed",
                              !.file_type = get_file_type(names.filename, names.language,
                                                          names.metadata, names.exists)]
    /\ UNCHANGED <<bannerVars, wrap, tree, found, stats>>

NextType == ScanFileGetLanguage \/ ScanFileGetFileType

SpecType == InitType /\ [][NextType]_vars

\* C15: an existing file is TEST whenever its path matches a configured test
\* pattern or its basename matches 'test_*' or '*.test.*', whether or not it
\* matches a doc pattern; it is DOC only when it is not TEST and matches a
\* configured doc pattern; and it is CODE otherwise.
C15_FileTypes ==
    LET test == \/ \E k \in 1..Len(names.metadata.test_patterns) :
                      fnmatch(names.filename, names.metadata.test_patterns[k])
                \/ fnmatch(Basename(names.filename), <<"t", "e", "s", "t", "_", "*">>)
                \/ fnmatch(Basename(names.filename), <<"*", ".", "t", "e", "s", "t", ".", "*">>)
        doc == \E k \in 1..Len(names.metadata.doc_patterns) :
                  fnmatch(names.filename, names.metadata.doc_patterns[k])
    IN names.state = "typed" =>
          names.file_type = IF test THEN "TEST" ELSE IF doc THEN "DOC" ELSE "CODE"

====
